---- MODULE Spec2Model ----
(***************************************************************************)
(* Model of the ensemble orchestrator of src/src/orchestrator.py:          *)
(* LLMClients (provider discovery and the per-provider classify/extract    *)
(* calls), the LangGraph fan-out (routers, the six provider nodes, the     *)
(* operator.add reducer on "results"), FieldMerger.merge_extractions and   *)
(* Orchestrator.classify_ensemble / ensemble_extract.                      *)
(*                                                                         *)
(* Python values are tagged records [t, n, d, s, l]:                       *)
(*   t = "null" | "num" | "bool" | "str" | "list" | "dict" | "TypeError"   *)
(*   n/d  a number as the fraction n/d (True is 1/1, False is 0/1)         *)
(*   s    the text of a str, or the identity of a dict                     *)
(*   l    the elements of a list, each an element record [t, s]            *)
(* A float confidence is an integer number of tenths; a mean is kept as    *)
(* the fraction sum/len that the code computes.                            *)
(***************************************************************************)
EXTENDS Integers, Sequences, FiniteSets, TLC

VARIABLES
    llm_clients,   \* keys of the module-global _llm_clients.clients
    self_clients,  \* keys of Orchestrator.self.clients, bound in __init__
    pc,            \* "idle" | "classify" | "extract" | "returned"
    routed,        \* providers the router returned a Send for in this round
    outcome,       \* per provider: state and result of its client call
    calls,         \* per provider: client calls made in this round
    results,       \* the graph state's "results" list (operator.add reducer)
    ret,           \* what the last operation returned (or raised) to its caller
    merge_in       \* argument list of a direct FieldMerger.merge_extractions call

vars == <<llm_clients, self_clients, pc, routed, outcome, calls, results, ret, merge_in>>

----------------------------------------------------------------------------
(* Bounds of the model *)

\* longest argument list of a direct merge_extractions call
MaxResults == 3
\* numeric field values are 1..MaxNum
MaxNum == 2

----------------------------------------------------------------------------
(* Python values *)

Null == [t |-> "null", n |-> 0, d |-> 1, s |-> "", l |-> <<>>]
Num(k) == [t |-> "num", n |-> k, d |-> 1, s |-> "", l |-> <<>>]
Frac(a, b) == [t |-> "num", n |-> a, d |-> b, s |-> "", l |-> <<>>]
Bool(b) == [t |-> "bool", n |-> IF b THEN 1 ELSE 0, d |-> 1, s |-> "", l |-> <<>>]
Str(x) == [t |-> "str", n |-> 0, d |-> 1, s |-> x, l |-> <<>>]
List(x) == [t |-> "list", n |-> 0, d |-> 1, s |-> "", l |-> x]
Dict(x) == [t |-> "dict", n |-> 0, d |-> 1, s |-> x, l |-> <<>>]
TypeError == [t |-> "TypeError", n |-> 0, d |-> 1, s |-> "", l |-> <<>>]

\* list elements: a str, or a dict (unhashable)
EStr(x) == [t |-> "str", s |-> x]
EDict(x) == [t |-> "dict", s |-> x]

\* isinstance(v, (int, float)): bool is a subclass of int
IsNumber(v) == v.t \in {"num", "bool"}
\* hash(v) succeeds: list and dict are unhashable
IsHashable(v) == v.t \notin {"list", "dict"}
\* a == b for hashable values: True == 1 and False == 0
PyEq(a, b) ==
    IF IsNumber(a) /\ IsNumber(b) THEN a.n * b.d = b.n * a.d ELSE a = b

RECURSIVE SumSeq(_)
\* sum(values) of numbers, as a fraction over the common denominator 1
SumSeq(values) ==
    IF values = <<>> THEN 0 ELSE Head(values).n + SumSeq(Tail(values))

\* the k-th smallest element of a finite set of integers
Nth(S, k) == CHOOSE x \in S : Cardinality({y \in S : y < x}) = k - 1

\* collections.Counter(values): the distinct keys in first-insertion order,
\* each with its number of occurrences
Counter(values) ==
    LET firsts == {i \in 1..Len(values) :
                     \A j \in 1..(i - 1) : ~PyEq(values[j], values[i])}
    IN  [k \in 1..Cardinality(firsts) |->
           [key |-> values[Nth(firsts, k)],
            count |-> Cardinality({j \in 1..Len(values) :
                                     PyEq(values[j], values[Nth(firsts, k)])})]]

\* (variant: the last item that reaches the maximum wins)
most_common_1_last(counter) ==
    LET k == CHOOSE k \in 1..Len(counter) :
                 /\ \A m \in 1..Len(counter) : counter[m].count <= counter[k].count
                 /\ \A m \in (k + 1)..Len(counter) : counter[m].count < counter[k].count
    IN  counter[k].key

\* Counter.most_common(1)[0][0]: max() over the items by count, which keeps
\* the first item that reaches the maximum
most_common_1(counter) ==
    LET k == CHOOSE k \in 1..Len(counter) :
                 /\ \A m \in 1..Len(counter) : counter[m].count <= counter[k].count
                 /\ \A m \in 1..(k - 1) : counter[m].count < counter[k].count
    IN  counter[k].key

----------------------------------------------------------------------------
(* FieldMerger.merge_extractions *)

\* [r.get(key) for r in field_results if r.get(key) is not None]
NonNullValues(field_results, key) ==
    LET sel == SelectSeq(field_results, LAMBDA r : key \in DOMAIN r /\ r[key].t # "null")
    IN  [i \in 1..Len(sel) |-> sel[i][key]]

RECURSIVE ExtendAll(_)
\* all_items after the loop: the elements of every list value, in order
ExtendAll(values) ==
    IF values = <<>> THEN <<>>
    ELSE (IF Head(values).t = "list" THEN Head(values).l ELSE <<>>)
         \o ExtendAll(Tail(values))

Range(seq) == {seq[i] : i \in 1..Len(seq)}

\* list(set(all_items)): set() raises TypeError on an unhashable element; the
\* iteration order of the set is `order`, an enumeration of the elements
ListOfSet(all_items, order) ==
    IF \E e \in Range(all_items) : e.t = "dict" THEN TypeError
    ELSE List(SelectSeq(order, LAMBDA e : e \in Range(all_items)))

\* (variant: the first value instead of the mean)
MeanOfFirst(values) ==
    IF \A i \in 1..Len(values) : IsNumber(values[i])
    THEN Frac(values[1].n, 1)
    ELSE TypeError

\* sum(values) / len(values): int + str, int + list, int + dict raise TypeError
MeanOf(values) ==
    IF \A i \in 1..Len(values) : IsNumber(values[i])
    THEN Frac(SumSeq(values), Len(values))
    ELSE TypeError

\* Counter(values).most_common(1)[0][0]: Counter hashes every value
PluralityOf(values) ==
    IF \A i \in 1..Len(values) : IsHashable(values[i])
    THEN most_common_1(Counter(values))
    ELSE TypeError

\* the body of the loop over all_keys, for one key
MergeKey(values, order) ==
    IF values = <<>> THEN Null
    ELSE LET sample == values[1]
         IN  IF IsNumber(sample) THEN MeanOf(values)
             ELSE IF sample.t = "list" THEN ListOfSet(ExtendAll(values), order)
             ELSE IF sample.t = "str" THEN PluralityOf(values)
             ELSE values[1]

\* all_keys: the union of the maps' key sets
AllKeys(field_results) == UNION {DOMAIN field_results[i] : i \in 1..Len(field_results)}

EmptyMap == [k \in {} |-> Null]

\* (variant: no shortcut for a single map, which goes through the reductions)
merge_extractions_no_single(field_results, order) ==
    IF field_results = <<>> THEN [raised |-> FALSE, value |-> EmptyMap]
    ELSE LET merged == [key \in AllKeys(field_results) |->
                          MergeKey(NonNullValues(field_results, key), order)]
         IN  IF \E key \in DOMAIN merged : merged[key].t = "TypeError"
             THEN [raised |-> TRUE, value |-> EmptyMap]
             ELSE [raised |-> FALSE, value |-> merged]

\* merge_extractions(field_results): [raised, value]; an exception of any key's
\* reduction leaves the function
merge_extractions(field_results, order) ==
    IF field_results = <<>> THEN [raised |-> FALSE, value |-> EmptyMap]
    ELSE IF Len(field_results) = 1 THEN [raised |-> FALSE, value |-> field_results[1]]
    ELSE LET merged == [key \in AllKeys(field_results) |->
                          MergeKey(NonNullValues(field_results, key), order)]
         IN  IF \E key \in DOMAIN merged : merged[key].t = "TypeError"
             THEN [raised |-> TRUE, value |-> EmptyMap]
             ELSE [raised |-> FALSE, value |-> merged]

----------------------------------------------------------------------------
(* LLMClients *)

\* the providers _initialize_clients tries, and the graphs have a node for
Providers == {"openai", "gemini", "ollama"}

\* the key sets _initialize_clients can leave in self.clients: each of the
\* three try blocks either adds its provider or logs and goes on
InitializedClients == SUBSET Providers

\* get_available_providers(): list(self.clients.keys())
get_available_providers(clients) == clients

\* float(result.get("confidence", 0.5)), in tenths
DefaultConfidence == 5

\* what a backend can answer to a classify request: a failure of the
\* transport or of the parsing (an exception), or a JSON object that may
\* lack "type" or "confidence"; confidence 15 is 1.5, outside [0, 1]
ClassifyResponses ==
    {[kind |-> "raise", has_type |-> FALSE, type |-> "", has_conf |-> FALSE, conf |-> 0]}
    \cup {[kind |-> "json", has_type |-> TRUE, type |-> ty, has_conf |-> TRUE, conf |-> c] :
            ty \in {"invoice", "contract"}, c \in {3, 15}}
    \cup {[kind |-> "json", has_type |-> FALSE, type |-> "", has_conf |-> TRUE, conf |-> c] :
            c \in {3, 15}}
    \cup {[kind |-> "json", has_type |-> TRUE, type |-> ty, has_conf |-> FALSE, conf |-> 0] :
            ty \in {"invoice", "contract"}}
    \cup {[kind |-> "json", has_type |-> FALSE, type |-> "", has_conf |-> FALSE, conf |-> 0]}

\* has_conf records whether the backend's answer carried a "confidence"
NoOutcome ==
    [st |-> "none", doc_type |-> Null, confidence |-> Null, fields |-> EmptyMap,
     has_conf |-> TRUE]
Pending == [NoOutcome EXCEPT !.st = "pending"]
InFlight == [NoOutcome EXCEPT !.st = "inflight"]
Raised == [NoOutcome EXCEPT !.st = "raised"]

\* LLMClients.classify(provider, text, prompt_template): raises, or returns
\* (result.get("type", "unknown"), float(result.get("confidence", 0.5)))
classify(resp) ==
    IF resp.kind = "raise" THEN Raised
    ELSE [st |-> "returned",
          doc_type |-> IF resp.has_type THEN Str(resp.type) ELSE Str("unknown"),
          confidence |-> IF resp.has_conf THEN Num(resp.conf) ELSE Num(DefaultConfidence),
          fields |-> EmptyMap,
          has_conf |-> resp.has_conf]

\* LLMClients.extract(provider, text, prompt_template): raises, or returns
\* the parsed JSON object
extract(resp) ==
    IF resp.kind = "raise" THEN Raised
    ELSE [st |-> "returned", doc_type |-> Null, confidence |-> Null, fields |-> resp.fields,
          has_conf |-> TRUE]

----------------------------------------------------------------------------
(* Field maps the model draws from *)

ListElems == {EStr("A"), EStr("B"), EStr("C")}

\* the iteration orders a set of list elements can have
Orders == {o \in [1..3 -> ListElems] : \A i, j \in 1..3 : o[i] = o[j] => i = j}

\* values of key "f"
FValues ==
    {Null, Str("USD"), Str("CAD"), Bool(TRUE), Dict("d"),
     List(<<EStr("A"), EStr("B")>>), List(<<EStr("B"), EStr("C")>>),
     List(<<EDict("x")>>)}
    \cup {Num(k) : k \in 1..MaxNum}

\* a field map has key "f" or not, and some have a key "g" that is null
FieldMaps ==
    {EmptyMap, [g |-> Null], [f |-> Num(1), g |-> Null]}
    \cup {[f |-> v] : v \in FValues}

\* what a backend can answer to an extract request
ExtractResponses ==
    {[kind |-> "raise", fields |-> EmptyMap]}
    \cup {[kind |-> "json", fields |-> m] :
            m \in {EmptyMap, [f |-> Num(1)], [f |-> Num(MaxNum), g |-> Null],
                   [f |-> Str("USD")], [g |-> Null],
                   [f |-> List(<<EStr("A"), EStr("B")>>)],
                   [f |-> Str("CAD")], [f |-> Dict("d")],
                   [f |-> List(<<EStr("B"), EStr("C")>>)]}}

----------------------------------------------------------------------------
(* The LangGraph graphs: routers, provider nodes, reducer *)

\* classification_router / extraction_router: one Send per provider of the
\* module-global clients' available providers
Router(global_clients) == get_available_providers(global_clients)

\* (variant: the node lets the exception of the client call escape)
ClassifyNodeNoExcept(provider, out) ==
    IF out.st = "returned"
    THEN [escaped |-> FALSE,
          update |-> <<[provider |-> provider, doc_type |-> out.doc_type,
                        confidence |-> out.confidence, fields |-> EmptyMap]>>]
    ELSE [escaped |-> TRUE, update |-> <<>>]

\* (variant: a failed call contributes a placeholder vote)
ClassifyNodePlaceholder(provider, out) ==
    IF out.st = "returned"
    THEN [escaped |-> FALSE,
          update |-> <<[provider |-> provider, doc_type |-> out.doc_type,
                        confidence |-> out.confidence, fields |-> EmptyMap]>>]
    ELSE [escaped |-> FALSE,
          update |-> <<[provider |-> provider, doc_type |-> Str("unknown"),
                        confidence |-> Num(0), fields |-> EmptyMap]>>]

\* classify_openai / classify_gemini / classify_ollama: the update the node
\* returns for "results"; `escaped` says an exception left the node
ClassifyNode(provider, out) ==
    IF out.st = "returned"
    THEN [escaped |-> FALSE,
          update |-> <<[provider |-> provider, doc_type |-> out.doc_type,
                        confidence |-> out.confidence, fields |-> EmptyMap]>>]
    ELSE [escaped |-> FALSE, update |-> <<>>]

\* (variant: no `if fields` test, an empty map is a vote like any other)
ExtractNodeKeepEmpty(provider, out) ==
    IF out.st = "returned"
    THEN [escaped |-> FALSE,
          update |-> <<[provider |-> provider, doc_type |-> Null,
                        confidence |-> Null, fields |-> out.fields]>>]
    ELSE [escaped |-> FALSE, update |-> <<>>]

\* extract_openai / extract_gemini / extract_ollama
ExtractNode(provider, out) ==
    IF out.st = "returned" /\ out.fields # EmptyMap
    THEN [escaped |-> FALSE,
          update |-> <<[provider |-> provider, doc_type |-> Null,
                        confidence |-> Null, fields |-> out.fields]>>]
    ELSE [escaped |-> FALSE, update |-> <<>>]

Terminal(o) == o.st \in {"raised", "returned"}

\* (variant: the graph ends as soon as one task has settled)
SuperstepDoneFirst(tasks, out) ==
    tasks = {} \/ \E p \in tasks : Terminal(out[p])

\* graph.invoke returns when every task of the superstep has settled: each
\* node has its edge to END
SuperstepDone(tasks, out) == \A p \in tasks : Terminal(out[p])

----------------------------------------------------------------------------
(* Orchestrator *)

NoRet ==
    [op |-> "none", raised |-> FALSE, label |-> Null, confidence |-> Null,
     fields |-> EmptyMap, providers |-> <<>>]

RaisedRet(op) == [NoRet EXCEPT !.op = op, !.raised = TRUE]

Column(votes, col) == [i \in 1..Len(votes) |-> votes[i][col]]

\* (variant: the mean of the confidences of the winning label's votes only)
classify_ensemble_winner_mean(votes) ==
    IF votes = <<>>
    THEN [NoRet EXCEPT !.op = "classify_ensemble", !.label = Str("unknown"),
                       !.confidence = Frac(0, 1)]
    ELSE LET most_common_type == most_common_1(Counter(Column(votes, "doc_type")))
             winners == SelectSeq(votes, LAMBDA r : r.doc_type = most_common_type)
         IN  [NoRet EXCEPT !.op = "classify_ensemble",
                           !.label = most_common_type,
                           !.confidence = Frac(SumSeq(Column(winners, "confidence")),
                                               Len(winners)),
                           !.providers = Column(votes, "provider")]

\* (variant: raises on an empty vote list, as Counter([]).most_common(1)[0] would)
classify_ensemble_no_guard(votes) ==
    IF votes = <<>>
    THEN RaisedRet("classify_ensemble")
    ELSE [NoRet EXCEPT !.op = "classify_ensemble",
                       !.label = most_common_1(Counter(Column(votes, "doc_type"))),
                       !.confidence = Frac(SumSeq(Column(votes, "confidence")), Len(votes)),
                       !.providers = Column(votes, "provider")]

\* classify_ensemble after graph.invoke: the return value for the final
\* state's results
classify_ensemble(votes) ==
    IF votes = <<>>
    THEN [NoRet EXCEPT !.op = "classify_ensemble", !.label = Str("unknown"),
                       !.confidence = Frac(0, 1)]
    ELSE LET providers_used == Column(votes, "provider")
             doc_types == Column(votes, "doc_type")
             confidences == Column(votes, "confidence")
             most_common_type == most_common_1(Counter(doc_types))
             avg_confidence == Frac(SumSeq(confidences), Len(confidences))
         IN  [NoRet EXCEPT !.op = "classify_ensemble",
                           !.label = most_common_type,
                           !.confidence = avg_confidence,
                           !.providers = providers_used]

\* ensemble_extract after graph.invoke
ensemble_extract(votes, order) ==
    IF votes = <<>>
    THEN [NoRet EXCEPT !.op = "ensemble_extract"]
    ELSE LET providers_used == Column(votes, "provider")
             field_results == Column(votes, "fields")
             merged == merge_extractions(field_results, order)
         IN  IF merged.raised THEN RaisedRet("ensemble_extract")
             ELSE [NoRet EXCEPT !.op = "ensemble_extract",
                                !.fields = merged.value,
                                !.providers = providers_used]

----------------------------------------------------------------------------
(* The state machine *)

NoOutcomes == [p \in Providers |-> NoOutcome]
NoCalls == [p \in Providers |-> 0]

\* the state after Orchestrator(): __init__ rebinds the global _llm_clients
\* to a new LLMClients and keeps its clients dict
Init ==
    /\ llm_clients \in InitializedClients
    /\ self_clients = llm_clients
    /\ pc = "idle"
    /\ routed = {}
    /\ outcome = NoOutcomes
    /\ calls = NoCalls
    /\ results = <<>>
    /\ ret = NoRet
    /\ merge_in = <<>>

Idle == pc \in {"idle", "returned"}

\* another Orchestrator() in the same process, between two rounds: its
\* __init__ rebinds the global; the caller's view of the last round is dropped
NewOrchestrator ==
    /\ Idle
    /\ merge_in = <<>>
    /\ llm_clients' \in InitializedClients
    /\ pc' = "idle"
    /\ routed' = {}
    /\ outcome' = NoOutcomes
    /\ calls' = NoCalls
    /\ results' = <<>>
    /\ ret' = NoRet
    /\ UNCHANGED <<self_clients, merge_in>>

\* classify_ensemble / ensemble_extract up to the router: the initial state
\* has results = [], and the router's Sends are the tasks of the superstep
StartRound(kind) ==
    /\ Idle
    /\ merge_in = <<>>
    /\ pc' = kind
    /\ routed' = Router(llm_clients)
    /\ outcome' = [p \in Providers |-> IF p \in Router(llm_clients) THEN Pending ELSE NoOutcome]
    /\ calls' = NoCalls
    /\ results' = <<>>
    /\ ret' = NoRet
    /\ UNCHANGED <<llm_clients, self_clients, merge_in>>

StartClassify == StartRound("classify")

StartExtract == StartRound("extract")

\* a task starts to run: the node calls clients.classify / clients.extract
NodeCall(p) ==
    /\ pc \in {"classify", "extract"}
    /\ outcome[p].st = "pending"
    /\ outcome' = [outcome EXCEPT ![p] = InFlight]
    /\ calls' = [calls EXCEPT ![p] = @ + 1]
    /\ UNCHANGED <<llm_clients, self_clients, pc, routed, results, ret, merge_in>>

\* the node's call settles and the node returns its update, which the
\* operator.add reducer appends to "results"; an exception leaving a node
\* would leave graph.invoke and the orchestrator's method
NodeSettle(p, out, node, op) ==
    /\ outcome[p].st = "inflight"
    /\ outcome' = [outcome EXCEPT ![p] = out]
    /\ IF node.escaped
       THEN /\ pc' = "returned"
            /\ ret' = RaisedRet(op)
            /\ UNCHANGED results
       ELSE /\ results' = results \o node.update
            /\ UNCHANGED <<pc, ret>>
    /\ UNCHANGED <<llm_clients, self_clients, routed, calls, merge_in>>

ClassifyNodeReturn(p) ==
    /\ pc = "classify"
    /\ \E resp \in ClassifyResponses :
         NodeSettle(p, classify(resp), ClassifyNode(p, classify(resp)), "classify_ensemble")

ExtractNodeReturn(p) ==
    /\ pc = "extract"
    /\ \E resp \in ExtractResponses :
         NodeSettle(p, extract(resp), ExtractNode(p, extract(resp)), "ensemble_extract")

\* graph.invoke returns and classify_ensemble computes its result
ClassifyReturn ==
    /\ pc = "classify"
    /\ SuperstepDone(routed, outcome)
    /\ pc' = "returned"
    /\ ret' = classify_ensemble(results)
    /\ UNCHANGED <<llm_clients, self_clients, routed, outcome, calls, results, merge_in>>

\* graph.invoke returns and ensemble_extract merges
ExtractReturn ==
    /\ pc = "extract"
    /\ SuperstepDone(routed, outcome)
    /\ pc' = "returned"
    /\ \E order \in Orders : ret' = ensemble_extract(results, order)
    /\ UNCHANGED <<llm_clients, self_clients, routed, outcome, calls, results, merge_in>>

Next ==
    \/ NewOrchestrator
    \/ StartClassify
    \/ StartExtract
    \/ \E p \in Providers : NodeCall(p)
    \/ \E p \in Providers : ClassifyNodeReturn(p)
    \/ \E p \in Providers : ExtractNodeReturn(p)
    \/ ClassifyReturn
    \/ ExtractReturn

Spec == Init /\ [][Next]_vars

----------------------------------------------------------------------------
(* Direct calls of the static method FieldMerger.merge_extractions *)

InitMerge ==
    /\ llm_clients = Providers
    /\ self_clients = Providers
    /\ pc = "idle"
    /\ routed = {}
    /\ outcome = NoOutcomes
    /\ calls = NoCalls
    /\ results = <<>>
    /\ ret = NoRet
    /\ merge_in = <<>>

\* the caller builds the argument list
MergeArg ==
    /\ pc = "idle"
    /\ Len(merge_in) < MaxResults
    /\ \E m \in FieldMaps : merge_in' = Append(merge_in, m)
    /\ UNCHANGED <<llm_clients, self_clients, pc, routed, outcome, calls, results, ret>>

\* FieldMerger.merge_extractions(merge_in) runs and returns or raises
MergeCall ==
    /\ pc = "idle"
    /\ pc' = "returned"
    /\ \E order \in Orders :
         LET merged == merge_extractions(merge_in, order)
         IN  ret' = IF merged.raised THEN RaisedRet("merge_extractions")
                    ELSE [NoRet EXCEPT !.op = "merge_extractions", !.fields = merged.value]
    /\ UNCHANGED <<llm_clients, self_clients, routed, outcome, calls, results, merge_in>>

NextMerge == MergeArg \/ MergeCall

SpecMerge == InitMerge /\ [][NextMerge]_vars

\* one Orchestrator whose caller runs rounds or calls the merger directly
NextAPI ==
    \/ StartClassify
    \/ StartExtract
    \/ \E p \in Providers : NodeCall(p)
    \/ \E p \in Providers : ClassifyNodeReturn(p)
    \/ \E p \in Providers : ExtractNodeReturn(p)
    \/ ClassifyReturn
    \/ ExtractReturn
    \/ MergeArg
    \/ MergeCall

SpecAPI == Init /\ [][NextAPI]_vars

----------------------------------------------------------------------------
(* Properties of classify_ensemble *)

ClassifyReturned == pc = "returned" /\ ret.op = "classify_ensemble"

\* number of collected votes for a label
VoteCount(label) == Cardinality({i \in 1..Len(results) : results[i].doc_type = label})

\* position of the first collected vote for a label
FirstVote(label) ==
    CHOOSE i \in 1..Len(results) :
        /\ results[i].doc_type = label
        /\ \A j \in 1..(i - 1) : results[j].doc_type # label

\* C1: for a non-empty list of collected votes classify_ensemble returns a
\* label with the maximal vote count, and among the labels with that count
\* the one whose first vote was collected earliest.
C1_PluralityFirstCollected ==
    (ClassifyReturned /\ results # <<>>) =>
        /\ ~ret.raised
        /\ \E i \in 1..Len(results) : results[i].doc_type = ret.label
        /\ \A i \in 1..Len(results) :
             /\ VoteCount(results[i].doc_type) <= VoteCount(ret.label)
             /\ VoteCount(results[i].doc_type) = VoteCount(ret.label)
                  => FirstVote(ret.label) <= i

\* a round returned on two votes whose labels differ, a tie for the maximum,
\* and the label returned is the one collected first
C1_Witness ==
    /\ ClassifyReturned
    /\ Len(results) = 2
    /\ results[1].doc_type # results[2].doc_type
    /\ ret.label = results[1].doc_type

RECURSIVE SumOfVotes(_)
\* sum of the confidences of the collected votes at the positions in I
SumOfVotes(I) ==
    IF I = {} THEN 0
    ELSE LET i == CHOOSE i \in I : TRUE
         IN  results[i].confidence.n + SumOfVotes(I \ {i})

\* C2: for a non-empty list of collected votes the confidence returned by
\* classify_ensemble is the sum of the confidences of all votes divided by
\* the number of votes, whatever label each vote carries.
C2_MeanOfAllVotes ==
    (ClassifyReturned /\ results # <<>>) =>
        /\ ~ret.raised
        /\ ret.confidence.t = "num"
        /\ ret.confidence.d > 0
        /\ ret.confidence.n * Len(results)
             = ret.confidence.d * SumOfVotes(1..Len(results))

\* a round returned on three votes, one of them for another label than the
\* returned one and with another confidence than a vote for the returned label
C2_Witness ==
    /\ ClassifyReturned
    /\ Len(results) = 3
    /\ \E i, j \in 1..3 :
         /\ results[i].doc_type = ret.label
         /\ results[j].doc_type # ret.label
         /\ results[i].confidence # results[j].confidence

\* the providers of the round whose client call returned a value
Succeeded == {p \in routed : outcome[p].st = "returned"}

\* the providers of the round whose client call raised
Failed == {p \in routed : outcome[p].st = "raised"}

\* the vote a provider's own call result makes
OwnVote(p) ==
    [provider |-> p, doc_type |-> outcome[p].doc_type,
     confidence |-> outcome[p].confidence, fields |-> outcome[p].fields]

RECURSIVE SumOfOutcomes(_)
\* sum of the confidences the calls of the providers in S returned
SumOfOutcomes(S) ==
    IF S = {} THEN 0
    ELSE LET p == CHOOSE p \in S : TRUE
         IN  outcome[p].confidence.n + SumOfOutcomes(S \ {p})

\* C3: a classification round over N providers in which K > 0 calls succeed
\* and N - K raise returns normally; the consensus is computed from exactly
\* the K successful votes, and the provider list has length K and names
\* exactly the providers whose call succeeded, each once.
C3_PartialFailure ==
    (ClassifyReturned /\ Succeeded # {}) =>
        /\ ~ret.raised
        /\ Succeeded \cup Failed = routed
        /\ Len(results) = Cardinality(Succeeded)
        /\ \A i \in 1..Len(results) :
             /\ results[i].provider \in Succeeded
             /\ results[i] = OwnVote(results[i].provider)
        /\ Len(ret.providers) = Cardinality(Succeeded)
        /\ Range(ret.providers) = Succeeded
        /\ \E p \in Succeeded : outcome[p].doc_type = ret.label
        /\ ret.confidence.n * Cardinality(Succeeded)
             = ret.confidence.d * SumOfOutcomes(Succeeded)

\* a round over three providers returned after two calls succeeded and one raised
C3_Witness ==
    /\ ClassifyReturned
    /\ Cardinality(routed) = 3
    /\ Cardinality(Succeeded) = 2
    /\ Cardinality(Failed) = 1
    /\ Len(ret.providers) = 2

----------------------------------------------------------------------------
(* Properties of the rounds *)

ExtractReturned == pc = "returned" /\ ret.op = "ensemble_extract"

MergeReturned == pc = "returned" /\ ret.op = "merge_extractions"

\* C4: with no vote collected the operation returns the defined empty result
\* and does not raise: classify_ensemble ("unknown", 0.0, []), ensemble_extract
\* ({}, []), merge_extractions([]) {}.
C4_EmptyResult ==
    /\ (ClassifyReturned /\ results = <<>>) =>
          /\ ~ret.raised
          /\ ret.label = Str("unknown")
          /\ ret.confidence = Frac(0, 1)
          /\ ret.providers = <<>>
    /\ (ExtractReturned /\ results = <<>>) =>
          /\ ~ret.raised
          /\ ret.fields = EmptyMap
          /\ ret.providers = <<>>
    /\ (MergeReturned /\ merge_in = <<>>) =>
          /\ ~ret.raised
          /\ ret.fields = EmptyMap

\* an extraction round over three providers returned after every call raised
C4_Witness ==
    /\ ExtractReturned
    /\ Cardinality(routed) = 3
    /\ Failed = routed
    /\ ret.fields = EmptyMap
    /\ ret.providers = <<>>

\* C5: in every round each available provider is invoked exactly once (a
\* failed call is not retried), and the round returns only when every
\* invoked call has settled with a value or an error.
C5_AllSettledOnce ==
    /\ \A p \in Providers : calls[p] <= 1
    /\ (ClassifyReturned \/ ExtractReturned) =>
          /\ routed = llm_clients
          /\ \A p \in routed : calls[p] = 1 /\ Terminal(outcome[p])
          /\ \A p \in Providers \ routed : calls[p] = 0 /\ outcome[p].st = "none"

\* a round over three providers returned with a vote collected and a failed call
C5_Witness ==
    /\ ClassifyReturned \/ ExtractReturned
    /\ Cardinality(routed) = 3
    /\ results # <<>>
    /\ Failed # {}
    /\ \A p \in routed : calls[p] = 1

\* a step in which a provider's call raises changes nothing but that
\* provider's own outcome
FailureIsLocal ==
    \A p \in Providers :
        (outcome[p].st = "inflight" /\ outcome'[p].st = "raised") =>
            /\ pc' = pc
            /\ ret' = ret
            /\ results' = results
            /\ \A q \in Providers \ {p} : outcome'[q] = outcome[q]

\* every collected vote is the one its provider's own call result makes
VotesAreOwn ==
    \A i \in 1..Len(results) :
        /\ outcome[results[i].provider].st = "returned"
        /\ results[i] = OwnVote(results[i].provider)

\* C6: under every interleaving an exception of one provider's call does not
\* reach the caller, does not end or abort a sibling's call, and does not
\* change the vote a sibling contributes.
C6_FailureIsolation == [][FailureIsLocal]_vars /\ []VotesAreOwn

\* a round returned normally with the vote of one provider although the
\* call of another raised
C6_Witness ==
    /\ ClassifyReturned \/ ExtractReturned
    /\ ~ret.raised
    /\ Failed # {}
    /\ Succeeded # {}
    /\ Range(ret.providers) \cap Failed = {}
    /\ Range(ret.providers) # {}

----------------------------------------------------------------------------
(* Properties of merge_extractions, for the key "f" of the argument maps *)

\* positions of the maps that contribute a non-null value for "f"
Contributors == {i \in 1..Len(merge_in) : "f" \in DOMAIN merge_in[i] /\ merge_in[i].f.t # "null"}

\* the first non-null contribution for "f" has the given type
FirstIs(type) ==
    /\ Contributors # {}
    /\ \A i \in Contributors :
         (\A j \in Contributors : i <= j) => merge_in[i].f.t = type

\* positions of the contributions for "f" of the given type
OfType(type) == {i \in Contributors : merge_in[i].f.t = type}

\* C7: for a non-empty list of field maps merge_extractions returns a map
\* whose key set is the union of the key sets of the maps, also for a key
\* that one map only has or that has null values only.
C7_KeysAreUnion ==
    (MergeReturned /\ merge_in # <<>>) =>
        /\ ~ret.raised
        /\ DOMAIN ret.fields = UNION {DOMAIN merge_in[i] : i \in 1..Len(merge_in)}

\* what the code does keep of C7: the key set of a map it returns
KeysAreUnionWhenReturned ==
    (MergeReturned /\ merge_in # <<>> /\ ~ret.raised) =>
        DOMAIN ret.fields = UNION {DOMAIN merge_in[i] : i \in 1..Len(merge_in)}

RECURSIVE SumOfNumbers(_)
\* sum of the contributions for "f" at the positions in I
SumOfNumbers(I) ==
    IF I = {} THEN 0
    ELSE LET i == CHOOSE i \in I : TRUE
         IN  merge_in[i].f.n + SumOfNumbers(I \ {i})

\* C8: over two or more maps, when the first non-null contribution for a
\* field is a number, the merged value is the mean of the numeric
\* contributions for that field; a contribution that is no number is left
\* out of the mean and makes the merge neither fail nor change.
C8_NumericMean ==
    (MergeReturned /\ Len(merge_in) >= 2 /\ FirstIs("num")) =>
        /\ ~ret.raised
        /\ "f" \in DOMAIN ret.fields
        /\ ret.fields.f.t = "num"
        /\ ret.fields.f.n * Cardinality(OfType("num"))
             = ret.fields.f.d * SumOfNumbers(OfType("num"))

\* the elements of the list contributions for "f"
ListElements == UNION {Range(merge_in[i].f.l) : i \in OfType("list")}

\* C9: over two or more maps, when the first non-null contribution for a
\* field is a list, the merged value holds every element of every list
\* contribution for the field, no other element, and each once.
C9_ListUnion ==
    (MergeReturned /\ Len(merge_in) >= 2 /\ FirstIs("list")) =>
        /\ ~ret.raised
        /\ "f" \in DOMAIN ret.fields
        /\ ret.fields.f.t = "list"
        /\ Range(ret.fields.f.l) = ListElements
        /\ Len(ret.fields.f.l) = Cardinality(ListElements)

\* what the code does keep of C9: the union, once each, when every element
\* of the list contributions is hashable
ListUnionWhenHashable ==
    (/\ MergeReturned /\ Len(merge_in) >= 2 /\ FirstIs("list")
     /\ \A e \in ListElements : e.t # "dict") =>
        /\ ~ret.raised
        /\ ret.fields.f.t = "list"
        /\ Range(ret.fields.f.l) = ListElements
        /\ Len(ret.fields.f.l) = Cardinality(ListElements)

\* number of text contributions for "f" equal to the value v
TextCount(v) == Cardinality({i \in OfType("str") : merge_in[i].f = v})

\* C10: over two or more maps, when the first non-null contribution for a
\* field is a string, the merged value is the string that occurs most often
\* among the text contributions for the field, and among the strings with
\* the highest count the one met first.
C10_TextPlurality ==
    (MergeReturned /\ Len(merge_in) >= 2 /\ FirstIs("str")) =>
        /\ ~ret.raised
        /\ "f" \in DOMAIN ret.fields
        /\ \E i \in OfType("str") :
             /\ ret.fields.f = merge_in[i].f
             /\ \A j \in OfType("str") :
                  /\ TextCount(merge_in[j].f) <= TextCount(merge_in[i].f)
                  /\ (TextCount(merge_in[j].f) = TextCount(merge_in[i].f)
                      /\ merge_in[j].f # merge_in[i].f) =>
                        \E k \in OfType("str") : k < j /\ merge_in[k].f = merge_in[i].f

\* the first non-null contribution for "f"
FirstContribution ==
    merge_in[CHOOSE i \in Contributors : \A j \in Contributors : i <= j].f

\* C11: over two or more maps, when the first non-null contribution for a
\* field is neither a number, a list nor a string (a boolean, a nested
\* record), the merged value is that first contribution itself, unmodified;
\* booleans are not averaged into a number.
C11_FirstOtherUnmodified ==
    (MergeReturned /\ Len(merge_in) >= 2 /\ (FirstIs("bool") \/ FirstIs("dict"))) =>
        /\ ~ret.raised
        /\ "f" \in DOMAIN ret.fields
        /\ ret.fields.f = FirstContribution

\* what the code does keep of C11: a nested record that comes first is returned
FirstRecordUnmodified ==
    (MergeReturned /\ Len(merge_in) >= 2 /\ FirstIs("dict")) =>
        /\ ~ret.raised
        /\ ret.fields.f = FirstContribution

----------------------------------------------------------------------------
(* Single votes *)

\* C12: merging a single vote returns its payload unchanged: with one
\* collected vote classify_ensemble returns that vote's label and confidence,
\* and with one field map merge_extractions returns a map equal to it, null
\* values included.
C12_SingleVoteUnchanged ==
    /\ (ClassifyReturned /\ Len(results) = 1) =>
          /\ ~ret.raised
          /\ ret.label = results[1].doc_type
          /\ ret.confidence.t = "num"
          /\ ret.confidence.n = results[1].confidence.n * ret.confidence.d
    /\ (MergeReturned /\ Len(merge_in) = 1) =>
          /\ ~ret.raised
          /\ ret.fields = merge_in[1]

\* merge_extractions returned for one map that has a value and a null value
C12_Witness ==
    /\ MergeReturned
    /\ Len(merge_in) = 1
    /\ DOMAIN merge_in[1] = {"f", "g"}
    /\ ret.fields = merge_in[1]

----------------------------------------------------------------------------
(* The provider set *)

RoundReturned == ClassifyReturned \/ ExtractReturned

\* what a round in which providers ran and every call failed returns
NoConsensus ==
    {[NoRet EXCEPT !.op = "classify_ensemble", !.label = Str("unknown"),
                   !.confidence = Frac(0, 1)],
     [NoRet EXCEPT !.op = "ensemble_extract"]}

\* a round in which providers ran and all failed returns a NoConsensus value
AllFailedIsNoConsensus ==
    (RoundReturned /\ routed # {} /\ Failed = routed) => ret \in NoConsensus

\* C13: with an empty provider set classify_ensemble and ensemble_extract
\* report "no providers available" in a way the caller can tell from a round
\* in which providers ran and all failed: the results of the two differ.
C13_NoProvidersDistinct ==
    (RoundReturned /\ routed = {}) => ret \notin NoConsensus

----------------------------------------------------------------------------
(* Confidence values *)

\* the backend's answer to provider p had no confidence, or one outside
\* [0, 1] (0..10 tenths)
InvalidConfidence(p) ==
    /\ outcome[p].st \in {"raised", "returned"}
    /\ \/ ~outcome[p].has_conf
       \/ outcome[p].confidence.t = "num"
          /\ (outcome[p].confidence.n < 0 \/ outcome[p].confidence.n > 10 * outcome[p].confidence.d)

\* C14: a classify response whose confidence is missing or outside [0, 1]
\* counts as a failed call: not clamped, not defaulted, no vote in the round,
\* and its provider is not among the contributing providers.
C14_InvalidConfidenceRejected ==
    \A p \in Providers :
        ((pc = "classify" \/ ClassifyReturned) /\ InvalidConfidence(p)) =>
            /\ outcome[p].st = "raised"
            /\ \A i \in 1..Len(results) : results[i].provider # p
            /\ p \notin Range(ret.providers)

----------------------------------------------------------------------------
(* The provider set of an Orchestrator *)

\* C15: the provider set an Orchestrator fans out to is fixed at its
\* construction: every later round of it is routed to exactly that set,
\* whatever happened in between, the construction of another Orchestrator
\* included.
C15_ProviderSetFixed ==
    (pc \in {"classify", "extract"} \/ RoundReturned) => routed = self_clients

\* what the code does keep: a round is routed to the providers of the
\* module-global clients, those of the Orchestrator constructed last
RoutedToGlobalClients ==
    (pc \in {"classify", "extract"} \/ RoundReturned) => routed = llm_clients

----------------------------------------------------------------------------
(* Empty extractions *)

\* the providers of the round whose extract call returned an empty field map
ReturnedEmpty == {p \in routed : outcome[p].st = "returned" /\ outcome[p].fields = EmptyMap}

\* C16: in an extraction round a provider whose call returns an empty field
\* map contributes no vote and is not in the returned provider list, like a
\* provider whose call raised; if every provider returns an empty map,
\* ensemble_extract returns an empty map and an empty provider list.
C16_EmptyMapIsNoVote ==
    /\ (pc = "extract" \/ ExtractReturned) =>
          \A p \in ReturnedEmpty \cup Failed :
              /\ \A i \in 1..Len(results) : results[i].provider # p
              /\ p \notin Range(ret.providers)
    /\ (ExtractReturned /\ ReturnedEmpty = routed) =>
          /\ ~ret.raised
          /\ ret.fields = EmptyMap
          /\ ret.providers = <<>>

\* an extraction round over three providers returned after every call
\* returned an empty map
C16_Witness ==
    /\ ExtractReturned
    /\ Cardinality(routed) = 3
    /\ ReturnedEmpty = routed
    /\ ret.providers = <<>>

----------------------------------------------------------------------------
(* Collection order *)

\* the collection orders of the votes of a round
Reorderings(votes) ==
    {[i \in 1..Len(votes) |-> votes[p[i]]] :
        p \in {q \in [1..Len(votes) -> 1..Len(votes)] :
                 \A i, j \in 1..Len(votes) : q[i] = q[j] => i = j}}

\* two merged values are the same, lists compared as sets
SameValue(a, b) ==
    IF a.t = "list" /\ b.t = "list" THEN Range(a.l) = Range(b.l) ELSE a = b

\* two returns of ensemble_extract carry the same merged value for every field
SameFields(a, b) ==
    /\ DOMAIN a.fields = DOMAIN b.fields
    /\ \A k \in DOMAIN a.fields : SameValue(a.fields[k], b.fields[k])

VoteKeys == UNION {DOMAIN results[i].fields : i \in 1..Len(results)}

\* positions of the votes with a non-null value for key k
VotesFor(k) ==
    {i \in 1..Len(results) : k \in DOMAIN results[i].fields /\ results[i].fields[k].t # "null"}

\* no field has two strings tied for the highest count among its strings
NoStringTie ==
    \A k \in VoteKeys :
        LET strs == {i \in VotesFor(k) : results[i].fields[k].t = "str"}
            cnt(i) == Cardinality({j \in strs : results[j].fields[k] = results[i].fields[k]})
        IN  \A i, j \in strs :
                (/\ results[i].fields[k] # results[j].fields[k]
                 /\ \A m \in strs : cnt(m) <= cnt(i)) => cnt(j) < cnt(i)

\* the non-null values of every field are all numbers (bool included), all
\* lists, or all strings
SameKind ==
    \A k \in VoteKeys :
        \/ \A i \in VotesFor(k) : results[i].fields[k].t \in {"num", "bool"}
        \/ \A i \in VotesFor(k) : results[i].fields[k].t = "list"
        \/ \A i \in VotesFor(k) : results[i].fields[k].t = "str"

\* C17 as stated: for a fixed set of successful field maps with no two
\* strings tied for the highest count of a field, ensemble_extract returns
\* the same merged value for every field under every collection order of
\* the votes (lists compared as sets).
C17_OrderIndependent ==
    (ExtractReturned /\ results # <<>> /\ NoStringTie /\ ~ret.raised) =>
        \A other \in Reorderings(results) : \A order \in Orders :
            ~ensemble_extract(other, order).raised =>
                SameFields(ret, ensemble_extract(other, order))

\* C17 amended: the same, for field maps in which the non-null values of
\* every field are all numbers, all lists or all strings; then every
\* collection order also agrees on whether the merge raises.
C17_OrderIndependentSameKind ==
    (ExtractReturned /\ results # <<>> /\ NoStringTie /\ SameKind) =>
        \A other \in Reorderings(results) : \A order \in Orders :
            /\ ensemble_extract(other, order).raised = ret.raised
            /\ SameFields(ret, ensemble_extract(other, order))
            /\ Range(ensemble_extract(other, order).providers) = Range(ret.providers)

\* a round returned the merge of three votes of one kind that are not all
\* equal: two for one string, one for another
C17_Witness ==
    /\ ExtractReturned
    /\ Len(results) = 3
    /\ NoStringTie
    /\ SameKind
    /\ ~ret.raised
    /\ \E i, j \in 1..3 :
         /\ "f" \in DOMAIN results[i].fields /\ results[i].fields.f = Str("USD")
         /\ "f" \in DOMAIN results[j].fields /\ results[j].fields.f = Str("CAD")
    /\ "f" \in DOMAIN results[3].fields /\ results[3].fields.f.t = "str"
    /\ results[1].fields # results[3].fields

====
